---- MODULE Spec2Model ----
(***************************************************************************)
(* MCP-TEST: two tool entrypoints bound to the mcpToolTrigger              *)
(* (src/function_app.py: health_check, nagoya_weather) and the legacy      *)
(* HTTP route /api/mcp (src/old_function_app.py: mcp_entrypoint).          *)
(*                                                                         *)
(* Python values are modelled as tagged JSON values [t, v].  The module is *)
(* ASCII only: the Japanese literals of the source are written in romaji,  *)
(* each with the code points of the original in its comment.               *)
(***************************************************************************)
EXTENDS Integers, Sequences, FiniteSets, TLC

VARIABLES
  pc,              \* "idle" | "waiting" (the GET is in flight) | "done"
  call,            \* the invocation being served: entrypoint and its input
  requests_build,  \* which requests release the deployment installed
  gets,            \* outbound GETs issued by the invocation being served
  inflight,        \* the outbound request that is in flight
  upstream,        \* what the upstream endpoint answered
  args,            \* what _load_arguments gave the entrypoint
  fetched,         \* what _fetch_nagoya_weather gave the entrypoint
  out              \* what the entrypoint gave the host: a value or a fault

vars == <<pc, call, requests_build, gets, inflight, upstream, args, fetched, out>>

(***************************************************************************)
(* JSON / Python values                                                    *)
(***************************************************************************)
JNull == [t |-> "null", v |-> <<>>]

JBool(b) == [t |-> "bool", v |-> b]

JNum(n) == [t |-> "num", v |-> n]

JStr(s) == [t |-> "str", v |-> s]

JArr(a) == [t |-> "arr", v |-> a]

\* A dict keeps insertion order: a sequence of key/value pairs, keys unique.
JObj(kvs) == [t |-> "obj", v |-> kvs]

KV(k, x) == [k |-> k, x |-> x]

EmptyDict == JObj(<<>>)

\* A call's outcome: a returned value, or a raised exception with str(exc).
Ret(x) == [exc |-> "none", msg |-> "", val |-> x]

Raise(cls, text) == [exc |-> cls, msg |-> text, val |-> JNull]

NotRun == [exc |-> "notrun", msg |-> "", val |-> JNull]

Returned(r) == r.exc = "none"

Raised(r) == r.exc \notin {"none", "notrun"}

\* bool(x): None, False, 0, "", [] and {} are falsy.
Truthy(j) ==
  CASE j.t = "null" -> FALSE
    [] j.t = "bool" -> j.v
    [] j.t = "num" -> j.v # 0
    [] j.t = "str" -> j.v # ""
    [] j.t = "arr" -> Len(j.v) > 0
    [] j.t = "obj" -> Len(j.v) > 0

\* a or b
py_or(a, b) == IF Truthy(a) THEN a ELSE b

\* type(x).__name__
PyTypeName(j) ==
  CASE j.t = "null" -> "NoneType"
    [] j.t = "bool" -> "bool"
    [] j.t = "num" -> "int"
    [] j.t = "str" -> "str"
    [] j.t = "arr" -> "list"
    [] j.t = "obj" -> "dict"

HasKey(d, key) == \E i \in 1..Len(d.v) : d.v[i].k = key

\* dict.get(key, default) on a dict
DictGet(d, key, default) ==
  IF HasKey(d, key)
    THEN d.v[CHOOSE i \in 1..Len(d.v) : d.v[i].k = key].x
    ELSE default

\* x.get(key, default) on any value: only a dict has the attribute.
py_get(j, key, default) ==
  IF j.t = "obj"
    THEN Ret(DictGet(j, key, default))
    ELSE Raise("AttributeError",
               "'" \o PyTypeName(j) \o "' object has no attribute 'get'")

\* x[0]
py_index0(j) ==
  CASE j.t = "arr" -> IF Len(j.v) > 0 THEN Ret(j.v[1])
                      ELSE Raise("IndexError", "list index out of range")
    [] j.t = "str" -> IF j.v # "" THEN Ret(JStr(SubSeq(j.v, 1, 1)))
                      ELSE Raise("IndexError", "string index out of range")
    [] j.t = "obj" -> Raise("KeyError", "0")
    [] OTHER -> Raise("TypeError",
                      "'" \o PyTypeName(j) \o "' object is not subscriptable")

RECURSIVE json_dumps(_), DumpItems(_, _), DumpPairs(_, _)
\* json.dumps(x, ensure_ascii=False): separators ", " and ": ", keys in
\* insertion order, text kept as it is (no text of the model needs escaping).
json_dumps(j) ==
  CASE j.t = "null" -> "null"
    [] j.t = "bool" -> IF j.v THEN "true" ELSE "false"
    [] j.t = "num" -> ToString(j.v)
    [] j.t = "str" -> "\"" \o j.v \o "\""
    [] j.t = "arr" -> "[" \o DumpItems(j.v, 1) \o "]"
    [] j.t = "obj" -> "{" \o DumpPairs(j.v, 1) \o "}"

DumpItems(a, i) ==
  IF i > Len(a) THEN ""
  ELSE json_dumps(a[i]) \o (IF i < Len(a) THEN ", " ELSE "") \o DumpItems(a, i + 1)

DumpPairs(kvs, i) ==
  IF i > Len(kvs) THEN ""
  ELSE "\"" \o kvs[i].k \o "\": " \o json_dumps(kvs[i].x)
       \o (IF i < Len(kvs) THEN ", " ELSE "") \o DumpPairs(kvs, i + 1)

RECURSIVE py_repr(_), ReprItems(_, _), ReprPairs(_, _)
\* repr(x), as an f-string renders the members of a list or dict
py_repr(j) ==
  CASE j.t = "null" -> "None"
    [] j.t = "bool" -> IF j.v THEN "True" ELSE "False"
    [] j.t = "num" -> ToString(j.v)
    [] j.t = "str" -> "'" \o j.v \o "'"
    [] j.t = "arr" -> "[" \o ReprItems(j.v, 1) \o "]"
    [] j.t = "obj" -> "{" \o ReprPairs(j.v, 1) \o "}"

ReprItems(a, i) ==
  IF i > Len(a) THEN ""
  ELSE py_repr(a[i]) \o (IF i < Len(a) THEN ", " ELSE "") \o ReprItems(a, i + 1)

ReprPairs(kvs, i) ==
  IF i > Len(kvs) THEN ""
  ELSE "'" \o kvs[i].k \o "': " \o py_repr(kvs[i].x)
       \o (IF i < Len(kvs) THEN ", " ELSE "") \o ReprPairs(kvs, i + 1)

\* str(x), as f"{tool}" renders it
py_str(j) == IF j.t = "str" THEN j.v ELSE py_repr(j)

(***************************************************************************)
(* json.loads on the texts the model feeds it: the value CPython's json    *)
(* module returns for each, or the JSONDecodeError it raises.              *)
(***************************************************************************)
JSON_TABLE ==
    "" :> Raise("json.JSONDecodeError", "Expecting value: line 1 column 1 (char 0)") @@
    "{" :> Raise("json.JSONDecodeError", "Expecting property name enclosed in double quotes: line 1 column 2 (char 1)") @@
    "not json" :> Raise("json.JSONDecodeError", "Expecting value: line 1 column 1 (char 0)") @@
    " " :> Raise("json.JSONDecodeError", "Expecting value: line 1 column 2 (char 1)") @@
    "{}" :> Ret(JObj(<<>>)) @@
    "null" :> Ret(JNull) @@
    "[1]" :> Ret(JArr(<<JNum(1)>>)) @@
    "5" :> Ret(JNum(5)) @@
    "\"abc\"" :> Ret(JStr("abc")) @@
    "{\"arguments\": null}" :> Ret(JObj(<<KV("arguments", JNull)>>)) @@
    "{\"arguments\": {}}" :> Ret(JObj(<<KV("arguments", JObj(<<>>))>>)) @@
    "{\"arguments\": {\"unit\": \"celsius\"}}" :> Ret(JObj(<<KV("arguments", JObj(<<KV("unit", JStr("celsius"))>>))>>)) @@
    "{\"arguments\": {\"x\": 1}}" :> Ret(JObj(<<KV("arguments", JObj(<<KV("x", JNum(1))>>))>>)) @@
    "{\"arguments\": \"abc\"}" :> Ret(JObj(<<KV("arguments", JStr("abc"))>>)) @@
    "{\"arguments\": 5}" :> Ret(JObj(<<KV("arguments", JNum(5))>>)) @@
    "{\"arguments\": 0}" :> Ret(JObj(<<KV("arguments", JNum(0))>>)) @@
    "{\"arguments\": [1]}" :> Ret(JObj(<<KV("arguments", JArr(<<JNum(1)>>))>>)) @@
    "{\"arguments\": []}" :> Ret(JObj(<<KV("arguments", JArr(<<>>))>>)) @@
    "{\"tool\": null}" :> Ret(JObj(<<KV("tool", JNull)>>)) @@
    "{\"tool\": \"\"}" :> Ret(JObj(<<KV("tool", JStr(""))>>)) @@
    "{\"tool\": \"health_check\"}" :> Ret(JObj(<<KV("tool", JStr("health_check"))>>)) @@
    "{\"tool\": \"nagoya_weather\"}" :> Ret(JObj(<<KV("tool", JStr("nagoya_weather"))>>)) @@
    "{\"tool\": \"nagoya_weather\", \"arguments\": {}}" :> Ret(JObj(<<KV("tool", JStr("nagoya_weather")), KV("arguments", JObj(<<>>))>>)) @@
    "{\"tool\": \"bogus\"}" :> Ret(JObj(<<KV("tool", JStr("bogus"))>>)) @@
    "{\"tool\": \"Health_Check\"}" :> Ret(JObj(<<KV("tool", JStr("Health_Check"))>>)) @@
    "{\"tool\": 5}" :> Ret(JObj(<<KV("tool", JNum(5))>>)) @@
    "{\"tool\": 0}" :> Ret(JObj(<<KV("tool", JNum(0))>>)) @@
    "{\"tool\": [\"health_check\"]}" :> Ret(JObj(<<KV("tool", JArr(<<JStr("health_check")>>))>>)) @@
    "<html>" :> Raise("json.JSONDecodeError", "Expecting value: line 1 column 1 (char 0)") @@
    "{\"forecasts\": [1]}" :> Ret(JObj(<<KV("forecasts", JArr(<<JNum(1)>>))>>)) @@
    "{\"forecasts\": [{\"detail\": \"x\"}]}" :> Ret(JObj(<<KV("forecasts", JArr(<<JObj(<<KV("detail", JStr("x"))>>)>>))>>)) @@
    "{\"forecasts\": \"abc\"}" :> Ret(JObj(<<KV("forecasts", JStr("abc"))>>)) @@
    "{\"forecasts\": []}" :> Ret(JObj(<<KV("forecasts", JArr(<<>>))>>)) @@
    "{\"forecasts\": null}" :> Ret(JObj(<<KV("forecasts", JNull)>>)) @@
    "{\"publicTime\": \"2024-01-01T00:00:00+09:00\"}" :> Ret(JObj(<<KV("publicTime", JStr("2024-01-01T00:00:00+09:00"))>>)) @@
    "{\"forecasts\": [{\"detail\": {\"weather\": \"hare\"}}], \"publicTime\": \"2024-01-01T00:00:00+09:00\"}" :> Ret(JObj(<<KV("forecasts", JArr(<<JObj(<<KV("detail", JObj(<<KV("weather", JStr("hare"))>>))>>)>>)), KV("publicTime", JStr("2024-01-01T00:00:00+09:00"))>>)) @@
    "{\"forecasts\": [{\"telop\": \"kumori\"}]}" :> Ret(JObj(<<KV("forecasts", JArr(<<JObj(<<KV("telop", JStr("kumori"))>>)>>))>>)) @@
    "{\"forecasts\": [{}]}" :> Ret(JObj(<<KV("forecasts", JArr(<<JObj(<<>>)>>))>>)) @@
    "{\"forecasts\": [{\"detail\": {\"weather\": \"\"}, \"telop\": \"kumori\"}]}" :> Ret(JObj(<<KV("forecasts", JArr(<<JObj(<<KV("detail", JObj(<<KV("weather", JStr(""))>>)), KV("telop", JStr("kumori"))>>)>>))>>)) @@
    "{\"forecasts\": [{\"detail\": {\"weather\": \"hare\"}, \"telop\": \"kumori\"}], \"publicTime\": \"T1\", \"publicTimeFormatted\": \"T2\"}" :> Ret(JObj(<<KV("forecasts", JArr(<<JObj(<<KV("detail", JObj(<<KV("weather", JStr("hare"))>>)), KV("telop", JStr("kumori"))>>)>>)), KV("publicTime", JStr("T1")), KV("publicTimeFormatted", JStr("T2"))>>)) @@
    "{\"forecasts\": [{\"telop\": \"ame\"}, {\"detail\": {\"weather\": \"yuki\"}, \"telop\": \"hare\"}], \"publicTimeFormatted\": \"T2\"}" :> Ret(JObj(<<KV("forecasts", JArr(<<JObj(<<KV("telop", JStr("ame"))>>), JObj(<<KV("detail", JObj(<<KV("weather", JStr("yuki"))>>)), KV("telop", JStr("hare"))>>)>>)), KV("publicTimeFormatted", JStr("T2"))>>)) @@
    "{\"forecasts\": [{\"detail\": null, \"telop\": \"\"}], \"publicTime\": \"\", \"publicTimeFormatted\": \"\"}" :> Ret(JObj(<<KV("forecasts", JArr(<<JObj(<<KV("detail", JNull), KV("telop", JStr(""))>>)>>)), KV("publicTime", JStr("")), KV("publicTimeFormatted", JStr(""))>>)) @@
    "{\"forecasts\": [{\"detail\": {\"weather\": 7}}], \"publicTime\": null}" :> Ret(JObj(<<KV("forecasts", JArr(<<JObj(<<KV("detail", JObj(<<KV("weather", JNum(7))>>))>>)>>)), KV("publicTime", JNull)>>)) @@
    "{\"forecasts\": {\"a\": 1}}" :> Ret(JObj(<<KV("forecasts", JObj(<<KV("a", JNum(1))>>))>>)) @@
    "{\"forecasts\": 5}" :> Ret(JObj(<<KV("forecasts", JNum(5))>>))

JsonTexts == DOMAIN JSON_TABLE

\* json.loads(text)
json_loads(text) == JSON_TABLE[text]

(***************************************************************************)
(* Literals of the source                                                  *)
(***************************************************************************)
WEATHER_ENDPOINT == "https://weather.tsukumijima.net/api/forecast/city/230010"

RESOURCE_URI == "https://www.musashi.co.jp/company/message.html"

MCP_ROUTE == "mcp"

\* requests.get(..., timeout=5)
GET_TIMEOUT == 5

\* U+5929 6C17 60C5 5831 306E 53D6 5F97 306B 5931 6557 3057 307E 3057 305F 3002
MSG_FETCH_FAILED == "Tenki jouhou no shutoku ni shippai shimashita."

\* U+5929 6C17 60C5 5831 306E 8AAD 307F 53D6 308A 306B 5931 6557 3057 307E 3057 305F 3002
MSG_READ_FAILED == "Tenki jouhou no yomitori ni shippai shimashita."

\* U+5929 6C17 60C5 5831 304C 7A7A 3067 3057 305F 3002
MSG_EMPTY == "Tenki jouhou ga kara deshita."

\* U+540D 53E4 5C4B
CITY == "Nagoya"

\* U+5929 6C17 4E0D 660E
WEATHER_UNKNOWN == "Tenki fumei"

\* "JSON body" U+304C 5FC5 8981 3067 3059 3002
ERR_JSON_BODY == "JSON body ga hitsuyou desu."

\* "tool" U+30D5 30A3 30FC 30EB 30C9 3092 6307 5B9A 3057 3066 304F 3060 3055 3044 3002
ERR_TOOL_FIELD == "tool field wo shitei shite kudasai."

\* U+672A 77E5 306E 30C4 30FC 30EB 3067 3059 ": "
ERR_UNKNOWN_TOOL == "Michi no tool desu: "

(***************************************************************************)
(* src/function_app.py                                                     *)
(***************************************************************************)
\* _load_arguments without its except clause: the parse error propagates.
_load_arguments_uncaught(context) ==
  LET payload == json_loads(IF context = "" THEN "{}" ELSE context)
  IN IF Raised(payload) THEN payload
     ELSE LET a == py_get(payload.val, "arguments", EmptyDict)
          IN IF Raised(a) THEN a ELSE Ret(py_or(a.val, EmptyDict))

\* _load_arguments(context): only json.JSONDecodeError is caught.
_load_arguments(context) ==
  LET payload == json_loads(IF context = "" THEN "{}" ELSE context)
  IN IF payload.exc = "json.JSONDecodeError" THEN Ret(EmptyDict)
     ELSE LET a == py_get(payload.val, "arguments", EmptyDict)
          IN IF Raised(a) THEN a ELSE Ret(py_or(a.val, EmptyDict))

\* _health_check()
_health_check ==
  JObj(<<KV("tool", JStr("health_check")), KV("status", JStr("ok"))>>)

(***************************************************************************)
(* The upstream endpoint and the requests library                          *)
(***************************************************************************)
\* requests before 2.27 lets response.json() raise the json module's error (a
\* ValueError); from 2.27 on it raises requests.exceptions.JSONDecodeError,
\* which is a RequestException and a ValueError.  The source pins no release.
RequestsBuilds == {"pre-2.27", "2.27+"}

NoOutcome ==
  [kind |-> "none", text |-> "", status_code |-> 0, reason |-> "", body |-> ""]

UpstreamStatuses == {200, 300, 404, 503}

Reason(status_code) ==
  CASE status_code = 200 -> "OK"
    [] status_code = 300 -> "Multiple Choices"
    [] status_code = 404 -> "Not Found"
    [] status_code = 503 -> "Service Unavailable"

UpstreamBodies ==
  { "", "<html>", "null", "[1]", "{}",
    "{\"forecasts\": []}",
    "{\"forecasts\": null}",
    "{\"publicTime\": \"2024-01-01T00:00:00+09:00\"}",
    "{\"forecasts\": [{\"detail\": {\"weather\": \"hare\"}}], \"publicTime\": \"2024-01-01T00:00:00+09:00\"}",
    "{\"forecasts\": [{\"telop\": \"kumori\"}]}",
    "{\"forecasts\": [{}]}",
    "{\"forecasts\": [{\"detail\": {\"weather\": \"\"}, \"telop\": \"kumori\"}]}",
    "{\"forecasts\": [{\"detail\": {\"weather\": \"hare\"}, \"telop\": \"kumori\"}], \"publicTime\": \"T1\", \"publicTimeFormatted\": \"T2\"}",
    "{\"forecasts\": [{\"telop\": \"ame\"}, {\"detail\": {\"weather\": \"yuki\"}, \"telop\": \"hare\"}], \"publicTimeFormatted\": \"T2\"}",
    "{\"forecasts\": [{\"detail\": null, \"telop\": \"\"}], \"publicTime\": \"\", \"publicTimeFormatted\": \"\"}",
    "{\"forecasts\": [{\"detail\": {\"weather\": 7}}], \"publicTime\": null}",
    "{\"forecasts\": [1]}",
    "{\"forecasts\": [{\"detail\": \"x\"}]}",
    "{\"forecasts\": \"abc\"}",
    "{\"forecasts\": {\"a\": 1}}",
    "{\"forecasts\": 5}" }

\* What one GET can come to: no connection, no answer within the timeout, or
\* a response with a status line and a body.
UpstreamOutcomes ==
  { [kind |-> "ConnectionError", text |-> "Connection refused",
     status_code |-> 0, reason |-> "", body |-> ""],
    [kind |-> "Timeout", text |-> "Read timed out. (read timeout=5)",
     status_code |-> 0, reason |-> "", body |-> ""] }
  \cup { [kind |-> "response", text |-> "", status_code |-> s,
          reason |-> Reason(s), body |-> b] :
         s \in UpstreamStatuses, b \in UpstreamBodies }

\* requests.get(WEATHER_ENDPOINT, timeout=5)
requests_get(outcome) ==
  IF outcome.kind = "response" THEN Ret(outcome)
  ELSE Raise(outcome.kind, outcome.text)

\* response.raise_for_status(): HTTPError for 4xx and 5xx, nothing otherwise.
raise_for_status(response) ==
  IF 400 <= response.status_code /\ response.status_code < 500
    THEN Raise("HTTPError",
               ToString(response.status_code) \o " Client Error: "
               \o response.reason \o " for url: " \o WEATHER_ENDPOINT)
  ELSE IF 500 <= response.status_code /\ response.status_code < 600
    THEN Raise("HTTPError",
               ToString(response.status_code) \o " Server Error: "
               \o response.reason \o " for url: " \o WEATHER_ENDPOINT)
  ELSE Ret(JNull)

\* response.json()
response_json(build, response) ==
  LET p == json_loads(response.body)
  IN IF Returned(p) THEN p
     ELSE Raise(IF build = "2.27+" THEN "requests.JSONDecodeError"
                ELSE "json.JSONDecodeError", p.msg)

\* isinstance(exc, requests.RequestException)
IsRequestException(cls) ==
  cls \in {"ConnectionError", "Timeout", "HTTPError", "requests.JSONDecodeError"}

\* isinstance(exc, ValueError)
IsValueError(cls) ==
  cls \in {"json.JSONDecodeError", "requests.JSONDecodeError"}

\* The try block of _fetch_nagoya_weather: get, raise_for_status, json.
FetchPayload(build, outcome) ==
  LET response == requests_get(outcome)
  IN IF Raised(response) THEN response
     ELSE LET checked == raise_for_status(response.val)
          IN IF Raised(checked) THEN checked
             ELSE response_json(build, response.val)

\* detail.get("weather") or today.get("telop") or "<weather unknown>"
ResolveWeather(today, detail) ==
  LET w == py_get(detail, "weather", JNull)
  IN IF Raised(w) THEN w
     ELSE IF Truthy(w.val) THEN w
     ELSE LET telop == py_get(today, "telop", JNull)
          IN IF Raised(telop) THEN telop
             ELSE Ret(py_or(telop.val, JStr(WEATHER_UNKNOWN)))

\* payload.get("publicTime") or payload.get("publicTimeFormatted")
ResolveUpdated(payload) ==
  py_or(DictGet(payload, "publicTime", JNull),
        DictGet(payload, "publicTimeFormatted", JNull))

\* NormalizePayload testing `forecasts is None` in place of `not forecasts`:
\* an empty array goes on to forecasts[0].
NormalizePayload_none_only(payload) ==
  LET got == py_get(payload, "forecasts", JNull)
  IN IF Raised(got) THEN got
     ELSE IF got.val.t = "null"
       THEN Ret(JObj(<<KV("tool", JStr("nagoya_weather")),
                       KV("status", JStr("error")),
                       KV("message", JStr(MSG_EMPTY))>>))
     ELSE LET today == py_index0(got.val)
          IN IF Raised(today) THEN today
             ELSE LET d == py_get(today.val, "detail", JNull)
                  IN IF Raised(d) THEN d
                     ELSE LET weather ==
                                ResolveWeather(today.val, py_or(d.val, EmptyDict))
                          IN IF Raised(weather) THEN weather
                             ELSE Ret(JObj(<<
                               KV("tool", JStr("nagoya_weather")),
                               KV("status", JStr("ok")),
                               KV("city", JStr(CITY)),
                               KV("weather", weather.val),
                               KV("updated_at", ResolveUpdated(payload)),
                               KV("source", JStr(WEATHER_ENDPOINT))>>))

\* _fetch_nagoya_weather after the try block, on the parsed payload.
NormalizePayload(payload) ==
  LET got == py_get(payload, "forecasts", JNull)
  IN IF Raised(got) THEN got
     ELSE LET forecasts == py_or(got.val, JArr(<<>>))
          IN IF ~Truthy(forecasts)
               THEN Ret(JObj(<<KV("tool", JStr("nagoya_weather")),
                               KV("status", JStr("error")),
                               KV("message", JStr(MSG_EMPTY))>>))
             ELSE LET today == py_index0(forecasts)
                  IN IF Raised(today) THEN today
                     ELSE LET d == py_get(today.val, "detail", JNull)
                          IN IF Raised(d) THEN d
                             ELSE LET weather ==
                                        ResolveWeather(today.val, py_or(d.val, EmptyDict))
                                  IN IF Raised(weather) THEN weather
                                     ELSE Ret(JObj(<<
                                       KV("tool", JStr("nagoya_weather")),
                                       KV("status", JStr("ok")),
                                       KV("city", JStr(CITY)),
                                       KV("weather", weather.val),
                                       KV("updated_at", ResolveUpdated(payload)),
                                       KV("source", JStr(WEATHER_ENDPOINT))>>))

\* _fetch_nagoya_weather whose first except clause drops `details`.
_fetch_nagoya_weather_no_details(build, outcome) ==
  LET payload == FetchPayload(build, outcome)
  IN IF Returned(payload) THEN NormalizePayload(payload.val)
     ELSE IF IsRequestException(payload.exc) \/ IsValueError(payload.exc)
       THEN Ret(JObj(<<KV("tool", JStr("nagoya_weather")),
                       KV("status", JStr("error")),
                       KV("message", JStr(MSG_FETCH_FAILED))>>))
     ELSE payload

\* _fetch_nagoya_weather(), given the build and what the one GET comes to.
\* The except clauses are tried in order: RequestException, then ValueError.
_fetch_nagoya_weather(build, outcome) ==
  LET payload == FetchPayload(build, outcome)
  IN IF Returned(payload) THEN NormalizePayload(payload.val)
     ELSE IF IsRequestException(payload.exc)
       THEN Ret(JObj(<<KV("tool", JStr("nagoya_weather")),
                       KV("status", JStr("error")),
                       KV("message", JStr(MSG_FETCH_FAILED)),
                       KV("details", JStr(payload.msg))>>))
     ELSE IF IsValueError(payload.exc)
       THEN Ret(JObj(<<KV("tool", JStr("nagoya_weather")),
                       KV("status", JStr("error")),
                       KV("message", JStr(MSG_READ_FAILED))>>))
     ELSE payload

\* health_check that refuses a call carrying arguments.
health_check_rejects_arguments(context) ==
  LET a == _load_arguments(context)
  IN IF Raised(a) THEN a
     ELSE IF Truthy(a.val)
       THEN Raise("ValueError", "health_check takes no arguments")
     ELSE Ret(JStr(json_dumps(_health_check)))

\* health_check(context)
health_check(context) ==
  LET a == _load_arguments(context)
  IN IF Raised(a) THEN a ELSE Ret(JStr(json_dumps(_health_check)))

\* nagoya_weather(context) up to its call of _fetch_nagoya_weather:
\* _load_arguments(context), then args.get("unit").
WeatherPrelude(context) ==
  LET a == _load_arguments(context)
  IN IF Raised(a) THEN a ELSE py_get(a.val, "unit", JNull)

\* nagoya_weather(context)
nagoya_weather(context, build, outcome) ==
  LET unit == WeatherPrelude(context)
  IN IF Raised(unit) THEN unit
     ELSE LET result == _fetch_nagoya_weather(build, outcome)
          IN IF Raised(result) THEN result
             ELSE Ret(JStr(json_dumps(result.val)))

(***************************************************************************)
(* src/old_function_app.py                                                 *)
(***************************************************************************)
\* func.HttpResponse(json.dumps(payload, ensure_ascii=False), ...)
_json_response(payload, status_code) ==
  [status_code |-> status_code, body |-> json_dumps(payload),
   mimetype |-> "application/json"]

ToolSchema ==
  JObj(<<KV("type", JStr("object")), KV("properties", EmptyDict),
         KV("additionalProperties", JBool(FALSE))>>)

\* _build_capabilities(): a fixed document (descriptions in romaji).
_build_capabilities ==
  JObj(<<
    KV("protocol", JStr("model-context-protocol/1.0")),
    KV("tools", JArr(<<
      JObj(<<KV("name", JStr("health_check")),
             KV("description", JStr("Sotsuu kakunin you no tool. Hikisuu nashi de yobidashi ka.")),
             KV("inputSchema", ToolSchema)>>),
      JObj(<<KV("name", JStr("nagoya_weather")),
             KV("description", JStr("Nihon no koukai tenki yohou API kara Nagoya no saishin tenki wo shutoku.")),
             KV("inputSchema", ToolSchema)>>)>>)),
    KV("resources", JArr(<<
      JObj(<<KV("name", JStr("musashi_message")),
             KV("uri", JStr(RESOURCE_URI)),
             KV("description", JStr("Kaitou ji ni junkyo suru kigyou message.")),
             KV("mimeType", JStr("text/html"))>>)>>)),
    KV("prompts", JArr(<<
      JObj(<<KV("name", JStr("resource_aligned_reply")),
             KV("description", JStr("Resource ni junkyo shita outou wo shiji.")),
             KV("content", JStr("Kaitou wa tsune ni resource no naiyou to seigou saseru koto."
                                   \o " Jijitsu wa resource yurai de aru to meiji shi, mukonkyo na hokan wa sakeru."
                                   \o " Tarinai jouhou wa fusoku to shite tsutaeru."))>>)>>)),
    KV("usage", JObj(<<
      KV("invoke", JObj(<<
        KV("method", JStr("POST")),
        KV("route", JStr("/api/" \o MCP_ROUTE)),
        KV("body", JObj(<<KV("tool", JStr("tool name")),
                          KV("arguments", EmptyDict)>>))>>)),
      KV("discovery", JObj(<<
        KV("method", JStr("GET")),
        KV("route", JStr("/api/" \o MCP_ROUTE))>>))>>))>>)

\* The legacy _health_check(): datetime.now().isoformat() + "Z"
legacy_health_check(now) ==
  JObj(<<KV("tool", JStr("health_check")), KV("status", JStr("ok")),
         KV("timestamp", JStr(now \o "Z"))>>)

\* req.get_json(): the parsed body, or ValueError
get_json(req) ==
  LET p == json_loads(req.body)
  IN IF Returned(p) THEN p ELSE Raise("ValueError", p.msg)

IsStr(j, s) == j.t = "str" /\ j.v = s

\* mcp_entrypoint(req) up to its dispatch: the tool to run, wrapped, or the
\* response or fault that ends the call before any tool runs.
McpDispatch(req) ==
  IF req.method = "GET"
    THEN [tool |-> "", ends |-> Ret(_json_response(_build_capabilities, 200))]
  ELSE LET payload == get_json(req)
       IN IF Raised(payload)
            THEN [tool |-> "",
                  ends |-> Ret(_json_response(
                             JObj(<<KV("error", JStr(ERR_JSON_BODY))>>), 400))]
          ELSE LET tool == py_get(payload.val, "tool", JNull)
               IN IF Raised(tool) THEN [tool |-> "", ends |-> tool]
                  ELSE IF ~Truthy(tool.val)
                    THEN [tool |-> "",
                          ends |-> Ret(_json_response(
                                     JObj(<<KV("error", JStr(ERR_TOOL_FIELD))>>), 400))]
                  ELSE IF IsStr(tool.val, "health_check")
                    THEN [tool |-> "health_check", ends |-> NotRun]
                  ELSE IF IsStr(tool.val, "nagoya_weather")
                    THEN [tool |-> "nagoya_weather", ends |-> NotRun]
                  ELSE [tool |-> "",
                        ends |-> Ret(_json_response(
                                   JObj(<<KV("error",
                                             JStr(ERR_UNKNOWN_TOOL \o py_str(tool.val)))>>),
                                   400))]

\* mcp_entrypoint(req), given the clock, the build and what the GET comes to.
mcp_entrypoint(req, now, build, outcome) ==
  LET d == McpDispatch(req)
  IN IF d.tool = "health_check"
       THEN Ret(_json_response(legacy_health_check(now), 200))
     ELSE IF d.tool = "nagoya_weather"
       THEN LET result == _fetch_nagoya_weather(build, outcome)
            IN IF Raised(result) THEN result
               ELSE Ret(_json_response(result.val, 200))
     ELSE d.ends

(***************************************************************************)
(* Inputs                                                                  *)
(***************************************************************************)
\* Context strings the trigger hands to health_check and nagoya_weather.
Contexts ==
  { "", " ", "{", "not json", "null", "[1]", "5", "\"abc\"", "{}",
    "{\"arguments\": null}",
    "{\"arguments\": {}}",
    "{\"arguments\": {\"unit\": \"celsius\"}}",
    "{\"arguments\": {\"x\": 1}}",
    "{\"arguments\": \"abc\"}",
    "{\"arguments\": 5}",
    "{\"arguments\": 0}",
    "{\"arguments\": [1]}",
    "{\"arguments\": []}" }

\* The route accepts GET and POST only.
Methods == {"GET", "POST"}

\* Request bodies of the HTTP route.
Bodies ==
  { "", "not json", "null", "[1]", "{}",
    "{\"tool\": null}",
    "{\"tool\": \"\"}",
    "{\"tool\": 0}",
    "{\"tool\": 5}",
    "{\"tool\": [\"health_check\"]}",
    "{\"tool\": \"bogus\"}",
    "{\"tool\": \"Health_Check\"}",
    "{\"tool\": \"health_check\"}",
    "{\"tool\": \"nagoya_weather\"}",
    "{\"tool\": \"nagoya_weather\", \"arguments\": {}}" }

\* datetime.now().isoformat()
Clock == {"2024-01-01T09:00:00", "2024-06-30T23:59:59.123456"}

(***************************************************************************)
(* The state machine: the host serves one invocation at a time from idle;  *)
(* nothing survives an invocation but the installed build.                 *)
(***************************************************************************)
NoCall == [entry |-> "none", context |-> "", method |-> "", body |-> "", now |-> ""]

NoRequest == [method |-> "", url |-> "", timeout |-> 0]

TheGet == [method |-> "GET", url |-> WEATHER_ENDPOINT, timeout |-> GET_TIMEOUT]

Init ==
  /\ pc = "idle"
  /\ call = NoCall
  /\ requests_build \in RequestsBuilds
  /\ gets = 0
  /\ inflight = NoRequest
  /\ upstream = NoOutcome
  /\ args = NotRun
  /\ fetched = NotRun
  /\ out = NotRun

\* The trigger invokes health_check(context); the handler runs to its end.
HealthCheck(context) ==
  /\ pc = "idle"
  /\ call' = [NoCall EXCEPT !.entry = "health_check", !.context = context]
  /\ args' = _load_arguments(context)
  /\ out' = health_check(context)
  /\ pc' = "done"
  /\ UNCHANGED <<requests_build, gets, inflight, upstream, fetched>>

\* The trigger invokes nagoya_weather(context); the handler runs until it
\* faults or has issued the GET of _fetch_nagoya_weather and blocks on it.
NagoyaWeatherCall(context) ==
  /\ pc = "idle"
  /\ call' = [NoCall EXCEPT !.entry = "nagoya_weather", !.context = context]
  /\ args' = _load_arguments(context)
  /\ IF Raised(WeatherPrelude(context))
       THEN /\ out' = nagoya_weather(context, requests_build, NoOutcome)
            /\ pc' = "done"
            /\ UNCHANGED <<gets, inflight>>
       ELSE /\ out' = NotRun
            /\ gets' = gets + 1
            /\ inflight' = TheGet
            /\ pc' = "waiting"
  /\ UNCHANGED <<requests_build, upstream, fetched>>

\* The route invokes mcp_entrypoint(req); the handler runs to its end, or,
\* for the nagoya_weather tool, until it blocks on the GET.
McpEntrypoint(method, body, now) ==
  /\ pc = "idle"
  /\ call' = [NoCall EXCEPT !.entry = "mcp_entrypoint", !.method = method,
                            !.body = body, !.now = now]
  /\ LET req == [method |-> method, body |-> body]
     IN IF McpDispatch(req).tool = "nagoya_weather"
          THEN /\ out' = NotRun
               /\ gets' = gets + 1
               /\ inflight' = TheGet
               /\ pc' = "waiting"
          ELSE /\ out' = mcp_entrypoint(req, now, requests_build, NoOutcome)
               /\ pc' = "done"
               /\ UNCHANGED <<gets, inflight>>
  /\ UNCHANGED <<requests_build, upstream, args, fetched>>

\* The GET ends (a response, or an exception no later than the timeout) and
\* the blocked handler runs to its end.
UpstreamReply(outcome) ==
  /\ pc = "waiting"
  /\ upstream' = outcome
  /\ inflight' = NoRequest
  /\ fetched' = _fetch_nagoya_weather(requests_build, outcome)
  /\ out' = IF call.entry = "nagoya_weather"
              THEN nagoya_weather(call.context, requests_build, outcome)
              ELSE mcp_entrypoint([method |-> call.method, body |-> call.body],
                                  call.now, requests_build, outcome)
  /\ pc' = "done"
  /\ UNCHANGED <<call, requests_build, gets, args>>

\* The host has the handler's result (or fault); the invocation's locals go.
Finish ==
  /\ pc = "done"
  /\ pc' = "idle"
  /\ call' = NoCall
  /\ gets' = 0
  /\ inflight' = NoRequest
  /\ upstream' = NoOutcome
  /\ args' = NotRun
  /\ fetched' = NotRun
  /\ out' = NotRun
  /\ UNCHANGED requests_build

Next ==
  \/ \E context \in Contexts : HealthCheck(context)
  \/ \E context \in Contexts : NagoyaWeatherCall(context)
  \/ \E method \in Methods, body \in Bodies, now \in Clock :
       McpEntrypoint(method, body, now)
  \/ \E outcome \in UpstreamOutcomes : UpstreamReply(outcome)
  \/ Finish

Spec == Init /\ [][Next]_vars


(***************************************************************************)
(* Reading the state                                                       *)
(***************************************************************************)
Triggers == {"health_check", "nagoya_weather"}

\* The invocation being served came through the trigger binding.
TriggerServed == pc # "idle" /\ call.entry \in Triggers

\* The Weather Tool ran to its end in the invocation being served.
WeatherRan == pc = "done" /\ gets >= 1

Keys(d) == [i \in 1..Len(d.v) |-> d.v[i].k]

IsEmptyMapping(r) == Returned(r) /\ r.val.t = "obj" /\ Len(r.val.v) = 0

\* r is a returned dict with exactly these keys, in this order.
IsDictWith(r, keys) == Returned(r) /\ r.val.t = "obj" /\ Keys(r.val) = keys

FieldIs(r, key, text) == IsStr(DictGet(r.val, key, JNull), text)

\* Two Python values are equal (the values of the model are JSON values).
SameValue(a, b) == json_dumps(a) = json_dumps(b) /\ a.t = b.t

ParsedContext == json_loads(call.context)

ParsedUpstream == json_loads(upstream.body)

\* The upstream answered with a status raise_for_status lets through and a
\* body that is a JSON object.
UpstreamObject ==
  /\ WeatherRan
  /\ upstream.kind = "response"
  /\ ~(400 <= upstream.status_code /\ upstream.status_code < 600)
  /\ Returned(ParsedUpstream)
  /\ ParsedUpstream.val.t = "obj"

TypeOK ==
  /\ pc \in {"idle", "waiting", "done"}
  /\ call.entry \in Triggers \cup {"none", "mcp_entrypoint"}
  /\ requests_build \in RequestsBuilds
  /\ gets \in 0..1
  /\ (pc = "waiting") = (inflight = TheGet)
  /\ (pc = "idle") = (call = NoCall)
  /\ Contexts \cup Bodies \cup UpstreamBodies \subseteq JsonTexts

(***************************************************************************)
(* C1                                                                      *)
(***************************************************************************)
\* C1: for a context string that is empty or does not parse as JSON,
\* _load_arguments returns an empty mapping and does not raise.
C1_MalformedContextGivesEmptyMapping ==
  (TriggerServed /\ (call.context = "" \/ Raised(ParsedContext)))
    => IsEmptyMapping(args)

C1_Witness ==
  /\ pc = "done"
  /\ call.entry = "health_check"
  /\ call.context = "not json"
  /\ IsEmptyMapping(args)

(***************************************************************************)
(* C2                                                                      *)
(***************************************************************************)
\* C2: when the context parses as a JSON object whose `arguments` is absent,
\* null or not an object, _load_arguments returns an empty mapping; what it
\* returns is always a mapping.
C2_NonObjectArgumentsGiveEmptyMapping ==
  (TriggerServed /\ Returned(ParsedContext) /\ ParsedContext.val.t = "obj")
    => /\ Returned(args)
       /\ args.val.t = "obj"
       /\ (DictGet(ParsedContext.val, "arguments", JNull).t # "obj"
             => IsEmptyMapping(args))

(***************************************************************************)
(* C3                                                                      *)
(***************************************************************************)
\* C3: whatever the context string, the request body and the upstream
\* outcome, every entrypoint returns a response and raises nothing.
C3_EntrypointsNeverRaise == pc = "done" => Returned(out)

(***************************************************************************)
(* C4                                                                      *)
(***************************************************************************)
\* C4: a 2xx response whose body is not valid JSON gives the parse-failure
\* result {tool, status: "error", message: <read failed>}, without `details`.
C4_NonJsonBodyTakesParseFailureBranch ==
  (/\ WeatherRan
   /\ upstream.kind = "response"
   /\ 200 <= upstream.status_code /\ upstream.status_code < 300
   /\ Raised(ParsedUpstream))
    => /\ IsDictWith(fetched, <<"tool", "status", "message">>)
       /\ FieldIs(fetched, "tool", "nagoya_weather")
       /\ FieldIs(fetched, "status", "error")
       /\ FieldIs(fetched, "message", MSG_READ_FAILED)

(***************************************************************************)
(* C5                                                                      *)
(***************************************************************************)
\* The result of the network-failure branch, with `details` the given text.
IsFetchFailure(r, text) ==
  /\ IsDictWith(r, <<"tool", "status", "message", "details">>)
  /\ FieldIs(r, "tool", "nagoya_weather")
  /\ FieldIs(r, "status", "error")
  /\ FieldIs(r, "message", MSG_FETCH_FAILED)
  /\ FieldIs(r, "details", text)

\* str(exc) of the HTTPError that requests raises for a 4xx or 5xx status.
HttpErrorText ==
  ToString(upstream.status_code)
  \o (IF upstream.status_code < 500 THEN " Client Error: " ELSE " Server Error: ")
  \o upstream.reason \o " for url: " \o WEATHER_ENDPOINT

\* C5 as stated: after a connection error, a timeout or any status outside
\* 2xx, the result has status "error", the fetch-failure message and
\* `details`, and no `weather`.
C5_NetworkErrorNon2xx ==
  (WeatherRan /\ Returned(fetched)
   /\ (upstream.kind \in {"ConnectionError", "Timeout"}
                  \/ ~(200 <= upstream.status_code /\ upstream.status_code < 300)))
    => /\ IsDictWith(fetched, <<"tool", "status", "message", "details">>)
       /\ FieldIs(fetched, "tool", "nagoya_weather")
       /\ FieldIs(fetched, "status", "error")
       /\ FieldIs(fetched, "message", MSG_FETCH_FAILED)
       /\ ~HasKey(fetched.val, "weather")

\* C5 amended: a connection error, a timeout or a 4xx/5xx status gives
\* {tool: "nagoya_weather", status: "error", message: <fetch failed>,
\* details: str(exc)} and no `weather`.
C5_NetworkErrorGivesDetails ==
  /\ (WeatherRan /\ upstream.kind \in {"ConnectionError", "Timeout"})
       => IsFetchFailure(fetched, upstream.text)
  /\ (WeatherRan /\ upstream.kind = "response"
        /\ 400 <= upstream.status_code /\ upstream.status_code < 600)
       => IsFetchFailure(fetched, HttpErrorText)

C5_Witness ==
  /\ WeatherRan
  /\ upstream.kind = "response"
  /\ upstream.status_code = 503
  /\ IsFetchFailure(fetched,
       "503 Server Error: Service Unavailable for url: https://weather.tsukumijima.net/api/forecast/city/230010")

(***************************************************************************)
(* C6                                                                      *)
(***************************************************************************)
\* The result of the empty-data branch: three fields and no others.
IsEmptyData(r) ==
  /\ IsDictWith(r, <<"tool", "status", "message">>)
  /\ FieldIs(r, "tool", "nagoya_weather")
  /\ FieldIs(r, "status", "error")
  /\ FieldIs(r, "message", MSG_EMPTY)

UpstreamForecasts == DictGet(ParsedUpstream.val, "forecasts", JNull)

\* C6: an upstream JSON object without `forecasts`, or whose `forecasts` is
\* null or an empty array, gives {tool: "nagoya_weather", status: "error",
\* message: <empty data>} with no weather, city, updated_at or details.
C6_NoForecastsGivesEmptyData ==
  (UpstreamObject /\ (UpstreamForecasts.t = "null"
                      \/ (UpstreamForecasts.t = "arr" /\ Len(UpstreamForecasts.v) = 0)))
    => IsEmptyData(fetched)

C6_Witness ==
  /\ UpstreamObject
  /\ upstream.body = "{\"forecasts\": []}"
  /\ IsEmptyData(fetched)

(***************************************************************************)
(* C7                                                                      *)
(***************************************************************************)
\* x.f where "present" is read as: x is an object that has the key f.
Present(x, f) == x.t = "obj" /\ HasKey(x, f)

FirstForecast == UpstreamForecasts.v[1]

\* The weather C7 names: detail.weather, else telop, else <weather unknown>.
ClaimedWeather ==
  IF Present(FirstForecast, "detail")
     /\ Present(DictGet(FirstForecast, "detail", JNull), "weather")
    THEN DictGet(DictGet(FirstForecast, "detail", JNull), "weather", JNull)
  ELSE IF Present(FirstForecast, "telop")
    THEN DictGet(FirstForecast, "telop", JNull)
  ELSE JStr(WEATHER_UNKNOWN)

\* The updated_at C7 names: publicTime, else publicTimeFormatted, else null.
ClaimedUpdated ==
  IF HasKey(ParsedUpstream.val, "publicTime")
    THEN DictGet(ParsedUpstream.val, "publicTime", JNull)
  ELSE DictGet(ParsedUpstream.val, "publicTimeFormatted", JNull)

\* C7: every upstream JSON object with a non-empty `forecasts` array gives
\* {tool, status: "ok", city, weather, updated_at, source}, weather and
\* updated_at resolved from the first forecast and the payload as above.
C7_FirstForecastResolved ==
  (UpstreamObject /\ UpstreamForecasts.t = "arr" /\ Len(UpstreamForecasts.v) > 0)
    => /\ IsDictWith(fetched,
            <<"tool", "status", "city", "weather", "updated_at", "source">>)
       /\ FieldIs(fetched, "tool", "nagoya_weather")
       /\ FieldIs(fetched, "status", "ok")
       /\ FieldIs(fetched, "city", CITY)
       /\ FieldIs(fetched, "source", WEATHER_ENDPOINT)
       /\ SameValue(DictGet(fetched.val, "weather", JNull), ClaimedWeather)
       /\ SameValue(DictGet(fetched.val, "updated_at", JNull), ClaimedUpdated)

(***************************************************************************)
(* C8                                                                      *)
(***************************************************************************)
PostServed == pc = "done" /\ call.entry = "mcp_entrypoint" /\ call.method = "POST"

ParsedBody == json_loads(call.body)

BodyTool == DictGet(ParsedBody.val, "tool", JNull)

BodyIsObject == Returned(ParsedBody) /\ ParsedBody.val.t = "obj"

\* The handler answered with this status and this JSON document.
Answered(status_code, payload) ==
  /\ Returned(out)
  /\ out.val.status_code = status_code
  /\ out.val.body = json_dumps(payload)

ErrorDoc(text) == JObj(<<KV("error", JStr(text))>>)

\* C8: POST. A body that is not JSON, a body whose `tool` is missing or
\* empty, and a `tool` other than "health_check" and "nagoya_weather" each
\* give 400 and an `error` field (naming the tool when it is unknown);
\* "health_check" and "nagoya_weather" give 200 and what the tool returned,
\* also when the weather result has status "error".
C8_PostDispatch ==
  /\ (PostServed /\ Raised(ParsedBody)) => Answered(400, ErrorDoc(ERR_JSON_BODY))
  /\ (PostServed /\ Returned(ParsedBody) /\ (~BodyIsObject \/ ~Truthy(BodyTool)))
       => Answered(400, ErrorDoc(ERR_TOOL_FIELD))
  /\ (PostServed /\ BodyIsObject /\ Truthy(BodyTool)
        /\ ~IsStr(BodyTool, "health_check") /\ ~IsStr(BodyTool, "nagoya_weather"))
       => Answered(400, ErrorDoc(ERR_UNKNOWN_TOOL \o py_str(BodyTool)))
  /\ (PostServed /\ BodyIsObject /\ IsStr(BodyTool, "health_check"))
       => Answered(200, JObj(<<KV("tool", JStr("health_check")),
                               KV("status", JStr("ok")),
                               KV("timestamp", JStr(call.now \o "Z"))>>))
  /\ (PostServed /\ BodyIsObject /\ IsStr(BodyTool, "nagoya_weather"))
       => /\ Returned(out)
          /\ out.val.status_code = 200
          /\ Returned(fetched)
          /\ out.val.body = json_dumps(fetched.val)

\* What holds of the dispatch: the same, for the bodies that are not JSON or
\* are JSON objects, and for the runs of the weather tool that return.
PostDispatchOfObjects ==
  /\ (PostServed /\ Raised(ParsedBody)) => Answered(400, ErrorDoc(ERR_JSON_BODY))
  /\ (PostServed /\ BodyIsObject /\ ~Truthy(BodyTool))
       => Answered(400, ErrorDoc(ERR_TOOL_FIELD))
  /\ (PostServed /\ BodyIsObject /\ Truthy(BodyTool)
        /\ ~IsStr(BodyTool, "health_check") /\ ~IsStr(BodyTool, "nagoya_weather"))
       => Answered(400, ErrorDoc(ERR_UNKNOWN_TOOL \o py_str(BodyTool)))
  /\ (PostServed /\ BodyIsObject /\ IsStr(BodyTool, "health_check"))
       => Answered(200, JObj(<<KV("tool", JStr("health_check")),
                               KV("status", JStr("ok")),
                               KV("timestamp", JStr(call.now \o "Z"))>>))
  /\ (PostServed /\ BodyIsObject /\ IsStr(BodyTool, "nagoya_weather")
        /\ Returned(fetched))
       => Answered(200, fetched.val)

(***************************************************************************)
(* C9                                                                      *)
(***************************************************************************)
\* C9: health_check returns the JSON text of {tool: "health_check",
\* status: "ok"} whatever arguments the context carries, none or any.
C9_HealthIgnoresArguments ==
  (pc = "done" /\ call.entry = "health_check"
   /\ (call.context = "" \/ Raised(ParsedContext) \/ ParsedContext.val.t = "obj"))
    => /\ Returned(out)
       /\ IsStr(out.val, "{\"tool\": \"health_check\", \"status\": \"ok\"}")

C9_Witness ==
  /\ pc = "done"
  /\ call.entry = "health_check"
  /\ call.context = "{\"arguments\": {\"x\": 1}}"
  /\ Truthy(args.val)
  /\ IsStr(out.val, "{\"tool\": \"health_check\", \"status\": \"ok\"}")

(***************************************************************************)
(* C10                                                                     *)
(***************************************************************************)
\* No invocation has more than one GET behind it, and none is in flight
\* once the handler has ended: no branch issues a second request.
SingleGet == gets <= 1 /\ (pc = "done" => inflight = NoRequest)

\* C10: an invocation of the Weather Tool issues exactly one GET and then
\* ends with a result, whatever the GET came to.
C10_OneGetThenResult == WeatherRan => (gets = 1 /\ Returned(fetched))
====
